---- MODULE Spec2Model ----
(***************************************************************************)
(* A model of Initverify: the CommandProcessor of app/logic.py (catalog,   *)
(* cart, command dispatcher with its confirmation gate, the sequential     *)
(* download-and-install pipeline run by background threads) and the part   *)
(* of SilentInstallerApp (app/main_window.py) that feeds it commands and   *)
(* receives its download events.                                           *)
(*                                                                         *)
(* Texts typed by the user are sequences of one-character strings, so      *)
(* that strip(), split() and lower() are computed as Python computes them. *)
(***************************************************************************)
EXTENDS Integers, Sequences, FiniteSets, TLC

\* ------------------------------------------------------------------ bounds
\* Pipeline threads that can be alive at once (the code sets no limit).
MaxWorkers == 2
\* Download events queued from a worker thread to the UI thread and not yet
\* handled (Qt's event queue is unbounded).
MaxQueue == 1
\* Names given to one add/remove command.
MaxArgs == 2
\* Chunks one response body is streamed in; a known content-length is this
\* many chunk sizes.
MaxChunks == 2

Workers == 1..MaxWorkers

\* ------------------------------------------------------------------- texts
steam == <<"s","t","e","a","m">>
vscode == <<"v","s","c","o","d","e">>
foo == <<"f","o","o">>
Steam == <<"S","t","e","a","m">>
w_add == <<"a","d","d">>
w_ADD == <<"A","D","D">>
w_remove == <<"r","e","m","o","v","e">>
w_show_apps == <<"s","h","o","w","-","a","p","p","s">>
w_cart == <<"c","a","r","t">>
w_remove_all == <<"r","e","m","o","v","e","-","a","l","l">>
w_install == <<"i","n","s","t","a","l","l">>
w_INSTALL == <<"I","N","S","T","A","L","L">>
w_help == <<"h","e","l","p">>
w_clear == <<"c","l","e","a","r">>
w_restart == <<"r","e","s","t","a","r","t">>
w_sys_info == <<"s","y","s","-","i","n","f","o">>
w_show_sys_info == <<"s","h","o","w","-","s","y","s","-","i","n","f","o">>
w_bogus == <<"b","o","g","u","s">>
w_y == <<"y">>
w_Y == <<"Y">>
w_yes == <<"y","e","s">>
w_YES == <<"Y","E","S">>
w_Yes == <<"Y","e","s">>
w_n == <<"n">>
w_no == <<"n","o">>
w_yy == <<"y","y">>
w_yes_please == <<"y","e","s"," ","p","l","e","a","s","e">>
w_y_padded == <<" ","y"," ">>
w_blank == <<" "," ">>

\* str.lower() on the letters the inputs use.
LowerChar(c) ==
    CASE c = "A" -> "a" [] c = "B" -> "b" [] c = "C" -> "c" [] c = "D" -> "d"
      [] c = "E" -> "e" [] c = "F" -> "f" [] c = "G" -> "g" [] c = "H" -> "h"
      [] c = "I" -> "i" [] c = "J" -> "j" [] c = "K" -> "k" [] c = "L" -> "l"
      [] c = "M" -> "m" [] c = "N" -> "n" [] c = "O" -> "o" [] c = "P" -> "p"
      [] c = "Q" -> "q" [] c = "R" -> "r" [] c = "S" -> "s" [] c = "T" -> "t"
      [] c = "U" -> "u" [] c = "V" -> "v" [] c = "W" -> "w" [] c = "X" -> "x"
      [] c = "Y" -> "y" [] c = "Z" -> "z" [] OTHER -> c

Lower(s) == [i \in 1..Len(s) |-> LowerChar(s[i])]

IsSpace(c) == c \in {" ", "\t"}

\* str.strip(): leading and trailing whitespace removed.
RECURSIVE LStrip(_)
LStrip(s) == IF s # <<>> /\ IsSpace(Head(s)) THEN LStrip(Tail(s)) ELSE s

RECURSIVE RStrip(_)
RStrip(s) ==
    IF s # <<>> /\ IsSpace(s[Len(s)]) THEN RStrip(SubSeq(s, 1, Len(s) - 1)) ELSE s

Strip(s) == RStrip(LStrip(s))

\* str.split() without arguments: the maximal runs of non-whitespace.
RECURSIVE SplitFrom(_, _, _, _)
SplitFrom(s, i, cur, acc) ==
    IF i > Len(s)
    THEN IF cur = <<>> THEN acc ELSE Append(acc, cur)
    ELSE IF IsSpace(s[i])
         THEN SplitFrom(s, i + 1, <<>>, IF cur = <<>> THEN acc ELSE Append(acc, cur))
         ELSE SplitFrom(s, i + 1, Append(cur, s[i]), acc)

Split(s) == SplitFrom(s, 1, <<>>, <<>>)

\* The text of a command word followed by its arguments, one space apart.
RECURSIVE JoinWords(_)
JoinWords(ws) ==
    IF ws = <<>> THEN <<>>
    ELSE IF Len(ws) = 1 THEN ws[1]
    ELSE ws[1] \o <<" ">> \o JoinWords(Tail(ws))

Range(s) == {s[i] : i \in 1..Len(s)}

\* ----------------------------------------------------------------- catalog
\* Python's None.
None == [kind |-> "none"]

\* A catalog entry as the bundled list has it: a dict of per-architecture URLs.
ArchUrls(u64, u32) == [kind |-> "dict", url_64 |-> u64, url_32 |-> u32]

\* A catalog entry that is one URL string.
Url(u) == [kind |-> "str", url |-> u]

\* installer_garbage.AVAILABLE_APPS, two of its categories with one app each:
\* the categories in dict order, each a mapping app name -> entry.
AVAILABLE_APPS ==
    << [category |-> "Launcher Games",
        apps |-> (steam :> ArchUrls("SteamSetup.exe", "SteamSetup.exe"))],
       [category |-> "IDE & Code Editors",
        apps |-> (vscode :> ArchUrls("win32-x64-user", "win32-user"))] >>

\* A list fetched from APP_LIST_URL whose entries are plain URL strings.
RemoteApps ==
    << [category |-> "Launcher Games", apps |-> (steam :> Url("SteamSetup.exe"))],
       [category |-> "IDE & Code Editors", apps |-> (vscode :> Url("VSCodeSetup.exe"))] >>

\* What the try block of _load_app_database met: requests.get raised
\* (network_error), raise_for_status raised (http_error), exec of the text
\* raised (unparsable), or exec filled local_scope (text).
Fetch(kind, local_scope) == [kind |-> kind, local_scope |-> local_scope]

\* A local_scope in which exec bound no variable.
NoVariable == [name \in {} |-> << >>]

Fetches ==
    {Fetch("network_error", NoVariable), Fetch("http_error", NoVariable),
     Fetch("unparsable", NoVariable), Fetch("text", NoVariable),
     Fetch("text", "AVAILABLE_APPS" :> << >>),
     Fetch("text", "AVAILABLE_APPS" :> RemoteApps)}

\* The fetch of a launch whose outcome is not recorded.
NoFetch == Fetch("unrecorded", NoVariable)

\* local_scope.get("AVAILABLE_APPS", {})
ScopeGet(local_scope) ==
    IF "AVAILABLE_APPS" \in DOMAIN local_scope
    THEN local_scope["AVAILABLE_APPS"]
    ELSE << >>

_load_app_database_unchecked(fetch) ==
    IF fetch.kind = "text" THEN ScopeGet(fetch.local_scope) ELSE AVAILABLE_APPS

\* Lines 69-95: the fetched apps if the try block got to `if apps` with a
\* non-empty value, the bundled list from the except block otherwise.
_load_app_database(fetch) ==
    IF fetch.kind = "text" /\ ScopeGet(fetch.local_scope) # << >>
    THEN ScopeGet(fetch.local_scope)
    ELSE AVAILABLE_APPS

\* What _load_app_database can return: the fetched list, or the bundled one.
Catalogs == {_load_app_database(fetch) : fetch \in Fetches}

\* bool(x) of a catalog entry or None.
Truthy(e) ==
    CASE e.kind = "none" -> FALSE
      [] e.kind = "str" -> e.url # ""
      [] OTHER -> TRUE

RECURSIVE FindFrom(_, _, _)
FindFrom(db, i, app_name) ==
    IF i > Len(db) THEN None
    ELSE IF app_name \in DOMAIN db[i].apps THEN db[i].apps[app_name]
    ELSE FindFrom(db, i + 1, app_name)

_find_app_url(db, app_name_to_find) == FindFrom(db, 1, app_name_to_find)

CatalogIds(db) == UNION {DOMAIN db[i].apps : i \in 1..Len(db)}

\* ---------------------------------------------------------------- messages
\* One log_emitter call: its message type, which message it is, and the
\* app name or the set of cart items the message names.
Msg(level, key) == [level |-> level, key |-> key, about |-> <<>>]
MsgAbout(level, key, about) == [level |-> level, key |-> key, about |-> about]


\* ------------------------------------------------------------ cart handlers
\* show_cart: the empty-cart message, or the header, the items and the hint.
\* The items are logged in sorted order; the model keeps which items are
\* listed, not their order.
show_cart(cart) ==
    IF cart = {}
    THEN << Msg("info", "cart_empty") >>
    ELSE << Msg("info", "cart_header"),
            MsgAbout("info", "cart_items", cart),
            Msg("info", "cart_hint") >>

RECURSIVE AddLoop_abort(_, _, _, _, _)
AddLoop_abort(db, cart, app_names, i, log) ==
    IF i > Len(app_names) THEN [cart |-> cart, log |-> log]
    ELSE LET app_name == app_names[i] IN
         IF Truthy(_find_app_url(db, app_name))
         THEN AddLoop_abort(db, cart \cup {app_name}, app_names, i + 1,
                            Append(log, MsgAbout("success", "added", app_name)))
         ELSE [cart |-> cart,
               log |-> Append(log, MsgAbout("error", "not_found", app_name))]

RECURSIVE AddLoop_toggle(_, _, _, _, _)
AddLoop_toggle(db, cart, app_names, i, log) ==
    IF i > Len(app_names) THEN [cart |-> cart, log |-> log]
    ELSE LET app_name == app_names[i] IN
         IF Truthy(_find_app_url(db, app_name))
         THEN IF app_name \in cart
              THEN AddLoop_toggle(db, cart \ {app_name}, app_names, i + 1,
                       Append(log, MsgAbout("warning", "already_in_cart", app_name)))
              ELSE AddLoop_toggle(db, cart \cup {app_name}, app_names, i + 1,
                       Append(log, MsgAbout("success", "added", app_name)))
         ELSE AddLoop_toggle(db, cart, app_names, i + 1,
                  Append(log, MsgAbout("error", "not_found", app_name)))

RECURSIVE AddLoop_any_name(_, _, _, _, _)
AddLoop_any_name(db, cart, app_names, i, log) ==
    IF i > Len(app_names) THEN [cart |-> cart, log |-> log]
    ELSE LET app_name == app_names[i] IN
         IF app_name \in cart
         THEN AddLoop_any_name(db, cart, app_names, i + 1,
                  Append(log, MsgAbout("warning", "already_in_cart", app_name)))
         ELSE AddLoop_any_name(db, cart \cup {app_name}, app_names, i + 1,
                  Append(log, MsgAbout("success", "added", app_name)))

\* The loop of add_to_cart over app_names[i..], with the cart and the log so far.
RECURSIVE AddLoop(_, _, _, _, _)
AddLoop(db, cart, app_names, i, log) ==
    IF i > Len(app_names) THEN [cart |-> cart, log |-> log]
    ELSE LET app_name == app_names[i] IN
         IF Truthy(_find_app_url(db, app_name))
         THEN IF app_name \in cart
              THEN AddLoop(db, cart, app_names, i + 1,
                           Append(log, MsgAbout("warning", "already_in_cart", app_name)))
              ELSE AddLoop(db, cart \cup {app_name}, app_names, i + 1,
                           Append(log, MsgAbout("success", "added", app_name)))
         ELSE AddLoop(db, cart, app_names, i + 1,
                      Append(log, MsgAbout("error", "not_found", app_name)))

add_to_cart_all_without_names(db, cart, app_names) ==
    IF app_names = <<>>
    THEN [cart |-> cart \cup CatalogIds(db),
          log |-> << Msg("error", "add_no_name") >>]
    ELSE LET r == AddLoop(db, cart, app_names, 1, <<>>)
         IN  [cart |-> r.cart, log |-> r.log \o show_cart(r.cart)]

add_to_cart(db, cart, app_names) ==
    IF app_names = <<>>
    THEN [cart |-> cart, log |-> << Msg("error", "add_no_name") >>]
    ELSE LET r == AddLoop(db, cart, app_names, 1, <<>>)
         IN  [cart |-> r.cart, log |-> r.log \o show_cart(r.cart)]

RECURSIVE RemoveLoop_abort(_, _, _, _)
RemoveLoop_abort(cart, app_names, i, log) ==
    IF i > Len(app_names) THEN [cart |-> cart, log |-> log]
    ELSE LET app_name == app_names[i] IN
         IF app_name \in cart
         THEN RemoveLoop_abort(cart \ {app_name}, app_names, i + 1,
                               Append(log, MsgAbout("success", "removed", app_name)))
         ELSE [cart |-> cart,
               log |-> Append(log, MsgAbout("error", "not_in_cart", app_name))]

\* The loop of remove_from_cart over app_names[i..].
RECURSIVE RemoveLoop(_, _, _, _)
RemoveLoop(cart, app_names, i, log) ==
    IF i > Len(app_names) THEN [cart |-> cart, log |-> log]
    ELSE LET app_name == app_names[i] IN
         IF app_name \in cart
         THEN RemoveLoop(cart \ {app_name}, app_names, i + 1,
                         Append(log, MsgAbout("success", "removed", app_name)))
         ELSE RemoveLoop(cart, app_names, i + 1,
                         Append(log, MsgAbout("error", "not_in_cart", app_name)))

remove_from_cart(cart, app_names) ==
    IF app_names = <<>>
    THEN [cart |-> cart, log |-> << Msg("error", "remove_no_name") >>]
    ELSE LET r == RemoveLoop(cart, app_names, 1, <<>>)
         IN  [cart |-> r.cart, log |-> r.log \o show_cart(r.cart)]

clear_cart_keeps(cart) ==
    IF cart = {}
    THEN [cart |-> cart, log |-> << Msg("warning", "cart_already_empty") >>]
    ELSE [cart |-> cart, log |-> << Msg("success", "cart_cleared") >>]

clear_cart(cart) ==
    IF cart = {}
    THEN [cart |-> cart, log |-> << Msg("warning", "cart_already_empty") >>]
    ELSE [cart |-> {}, log |-> << Msg("success", "cart_cleared") >>]

show_available_apps(db) ==
    IF db = <<>>
    THEN << Msg("info", "apps_header"), Msg("warning", "no_lists") >>
    ELSE << Msg("info", "apps_header"),
            MsgAbout("info", "apps_table", CatalogIds(db)),
            Msg("info", "apps_hint") >>

show_help == << Msg("info", "help_text") >>

\* ------------------------------------------------------------- dispatcher
\* What one call of process_command does to the processor: the cart and
\* the flag it leaves, the messages it logs, and whether it starts a
\* pipeline thread.
Effect(cart, awaiting, log, thread) ==
    [cart |-> cart, awaiting |-> awaiting, log |-> log, thread |-> thread]

initiate_installation_any_cart(cart) ==
    Effect(cart, TRUE,
           << Msg("info", "will_install"),
              MsgAbout("info", "cart_items", cart),
              Msg("user", "continue_y_n") >>,
           FALSE)

initiate_installation_takes_cart(cart) ==
    IF cart = {}
    THEN Effect(cart, FALSE, << Msg("warning", "cart_empty_nothing_to_install") >>, FALSE)
    ELSE Effect({}, TRUE,
                << Msg("info", "will_install"),
                   MsgAbout("info", "cart_items", cart),
                   Msg("user", "continue_y_n") >>,
                FALSE)

\* Lines 258-270.
initiate_installation(cart) ==
    IF cart = {}
    THEN Effect(cart, FALSE, << Msg("warning", "cart_empty_nothing_to_install") >>, FALSE)
    ELSE Effect(cart, TRUE,
                << Msg("info", "will_install"),
                   MsgAbout("info", "cart_items", cart),
                   Msg("user", "continue_y_n") >>,
                FALSE)

\* A cart handler's result as the effect of the command that called it.
AddEffect(r, awaiting) == Effect(r.cart, awaiting, r.log, FALSE)

handle_install_confirmation_case_sensitive(cart, response) ==
    IF response \in {w_y, w_yes}
    THEN Effect(cart, FALSE, << Msg("success", "confirmation_received") >>, TRUE)
    ELSE Effect(cart, FALSE,
                << Msg("warning", "installation_cancelled") >> \o show_cart(cart),
                FALSE)

handle_install_confirmation_reprompt(cart, response) ==
    IF Lower(response) \in {w_y, w_yes}
    THEN Effect(cart, FALSE, << Msg("success", "confirmation_received") >>, TRUE)
    ELSE Effect(cart, Lower(response) \notin {w_n, w_no},
                << Msg("warning", "installation_cancelled") >> \o show_cart(cart),
                FALSE)

\* Lines 272-285.
handle_install_confirmation(cart, response) ==
    IF Lower(response) \in {w_y, w_yes}
    THEN Effect(cart, FALSE, << Msg("success", "confirmation_received") >>, TRUE)
    ELSE Effect(cart, FALSE,
                << Msg("warning", "installation_cancelled") >> \o show_cart(cart),
                FALSE)

\* The keys of command_map.
CommandMapKeys ==
    {w_show_apps, w_add, w_cart, w_remove, w_remove_all, w_install, w_help,
     w_clear, w_restart}

\* Lines 155-174: the handler command_map gives for `command`, applied.
Route(db, cart, awaiting, command, args) ==
    CASE command = w_show_apps ->
           Effect(cart, awaiting, show_available_apps(db), FALSE)
      [] command = w_add ->
           AddEffect(add_to_cart(db, cart, args), awaiting)
      [] command = w_cart ->
           Effect(cart, awaiting, show_cart(cart), FALSE)
      [] command = w_remove ->
           AddEffect(remove_from_cart(cart, args), awaiting)
      [] command = w_remove_all ->
           AddEffect(clear_cart(cart), awaiting)
      [] command = w_install -> initiate_installation(cart)
      [] command = w_help -> Effect(cart, awaiting, show_help, FALSE)
      [] command = w_clear ->
           Effect(cart, awaiting, << Msg("system_command", "clear_screen") >>, FALSE)
      [] command = w_restart ->
           Effect(cart, awaiting, << Msg("system_command", "restart_app") >>, FALSE)
      [] OTHER ->
           Effect(cart, awaiting,
                  << MsgAbout("error", "not_recognized", command) >>, FALSE)

\* Lines 151-153: command is parts[0].lower(), args the rest.
Parse(db, cart, awaiting, parts) ==
    Route(db, cart, awaiting,
          IF parts # <<>> THEN Lower(parts[1]) ELSE <<>>,
          IF parts # <<>> THEN Tail(parts) ELSE <<>>)

process_command_commands_first(db, cart, awaiting, command_text) ==
    IF awaiting /\ Lower(Split(command_text)[1]) \notin CommandMapKeys
    THEN handle_install_confirmation(cart, command_text)
    ELSE Parse(db, cart, FALSE, Split(command_text))

\* Lines 142-153.
process_command(db, cart, awaiting, command_text) ==
    IF awaiting THEN handle_install_confirmation(cart, command_text)
    ELSE Parse(db, cart, awaiting, Split(command_text))

\* ------------------------------------------------------------------ inputs
Names == {steam, vscode, foo}

ArgLists == UNION {[1..k -> Names] : k \in 0..MaxArgs}

\* The texts the user types into the command line.
Inputs ==
    {JoinWords(<<c>> \o a) : c \in {w_add, w_remove}, a \in ArgLists}
    \cup {JoinWords(<<w_ADD, Steam>>), JoinWords(<<w_ADD, steam>>)}
    \cup {w_show_apps, w_cart, w_remove_all, w_install, w_INSTALL, w_help,
          w_clear, w_restart, w_sys_info, w_show_sys_info, w_bogus}
    \cup {w_y, w_Y, w_yes, w_YES, w_Yes, w_n, w_no, w_yy, w_yes_please,
          w_y_padded, w_blank}

\* ------------------------------------------------------------------- state
VARIABLES
    apps_database,          \* CommandProcessor.apps_database
    shopping_cart,          \* CommandProcessor.shopping_cart
    awaiting_confirmation,  \* CommandProcessor.awaiting_confirmation
    input_enabled,          \* SilentInstallerApp.command_input.isEnabled()
    ui_events,              \* progress_signal emissions the UI has yet to handle
    pc,                     \* per pipeline thread: where run_full_installation is
    apps_to_install,        \* per pipeline thread: its local apps_to_install
    idx,                    \* per pipeline thread: position of its for loop
    summary,                \* per pipeline thread: final summaries it has logged
    dl,                     \* per pipeline thread: the locals of _download_file
    log_kept,               \* whether the two logs below are recorded
    entered,                \* the text last given to process_command
    output,                 \* what that process_command call logged
    run_log,                \* per pipeline thread, per app processed: the outcome
                            \* it logged, how the download and the child ended
    events_kept,            \* whether the two logs below are recorded
    events,                 \* per pipeline thread: what its run has emitted and
                            \* called so far, in order
    fetched                 \* what the fetch of APP_LIST_URL met at launch

vars == <<apps_database, shopping_cart, awaiting_confirmation, input_enabled,
          ui_events, pc, apps_to_install, idx, summary, dl, log_kept, entered,
          output, run_log, events_kept, events, fetched>>

proc_vars == <<apps_database, shopping_cart, awaiting_confirmation>>
ui_vars == <<input_enabled, ui_events>>
thread_vars == <<pc, apps_to_install, idx, summary, dl>>
log_vars == <<log_kept, entered, output, run_log>>
trace_vars == <<events_kept, events, fetched>>

\* A thread is alive from Thread.start() until run_full_installation returns
\* or raises.
Alive(w) == pc[w] \in {"start", "loop", "downloading", "streaming", "installing"}

\* log_emitter calls of the foreground, and of pipeline thread w.
LogOutput(command_text, msgs) ==
    /\ entered' = IF log_kept THEN command_text ELSE entered
    /\ output' = IF log_kept THEN msgs ELSE output
    /\ UNCHANGED log_kept

\* No child process was run.
NoChild == [launched |-> FALSE, returncode |-> 0]

LogRun(w, msg, download, child) ==
    /\ run_log' =
          IF log_kept
          THEN [run_log EXCEPT ![w] =
                   Append(@, [app |-> apps_to_install[w][idx[w]], msg |-> msg,
                              download |-> download, child |-> child])]
          ELSE run_log
    /\ UNCHANGED <<log_kept, entered, output>>

\* The locals of _download_file before the response: local_filepath is None.
NoDownload ==
    [local_filepath |-> FALSE, total_size |-> 0, downloaded_size |-> 0,
     overdue |-> FALSE]

\* One thing a pipeline thread emits or calls for an app: the "Processing"
\* log line, the "Could not find URL" line, a progress_emitter signal (started,
\* progress with its percent, finished), the line _download_file logs when it
\* returns (downloaded, download_error), the installer call, its result.
Event(app, kind, percent) == [app |-> app, kind |-> kind, percent |-> percent]

\* Thread w emits evs, in order.
Emit(w, evs) ==
    /\ events' = IF events_kept THEN [events EXCEPT ![w] = @ \o evs] ELSE events
    /\ UNCHANGED <<events_kept, fetched>>

\* The state of a freshly launched application (main.py): the catalog loaded,
\* an empty cart, no confirmation pending, the command line enabled.
Launched(fetch) ==
    /\ apps_database = _load_app_database(fetch)
    /\ fetched = IF events_kept THEN fetch ELSE NoFetch
    /\ shopping_cart = {}
    /\ awaiting_confirmation = FALSE
    /\ input_enabled = TRUE
    /\ ui_events = <<>>
    /\ pc = [w \in Workers |-> "idle"]
    /\ apps_to_install = [w \in Workers |-> <<>>]
    /\ idx = [w \in Workers |-> 0]
    /\ summary = [w \in Workers |-> 0]
    /\ dl = [w \in Workers |-> NoDownload]
    /\ entered = <<>>
    /\ output = <<>>
    /\ run_log = [w \in Workers |-> <<>>]
    /\ events = [w \in Workers |-> <<>>]

Init ==
    /\ log_kept = FALSE
    /\ events_kept = FALSE
    /\ \E fetch \in Fetches : Launched(fetch)

\* ------------------------------------------------------ foreground (UI thread)
\* QApplication.exit(5) on "restart_app": the process ends (its daemon threads
\* with it) and run.py launches the application again.
Relaunch ==
    /\ \E fetch \in Fetches :
          /\ apps_database' = _load_app_database(fetch)
          /\ fetched' = IF events_kept THEN fetch ELSE fetched
    /\ shopping_cart' = {}
    /\ awaiting_confirmation' = FALSE
    /\ input_enabled' = TRUE
    /\ ui_events' = <<>>
    /\ pc' = [w \in Workers |-> "idle"]
    /\ apps_to_install' = [w \in Workers |-> <<>>]
    /\ idx' = [w \in Workers |-> 0]
    /\ summary' = [w \in Workers |-> 0]
    /\ dl' = [w \in Workers |-> NoDownload]
    /\ entered' = <<>>
    /\ output' = <<>>
    /\ run_log' = [w \in Workers |-> <<>>]
    /\ events' = [w \in Workers |-> <<>>]
    /\ UNCHANGED <<log_kept, events_kept>>

\* threading.Thread(target=self.run_full_installation).start(): thread w starts.
StartThread(w) ==
    /\ pc' = [pc EXCEPT ![w] = "start"]
    /\ apps_to_install' = [apps_to_install EXCEPT ![w] = <<>>]
    /\ idx' = [idx EXCEPT ![w] = 0]
    /\ summary' = [summary EXCEPT ![w] = 0]
    /\ dl' = [dl EXCEPT ![w] = NoDownload]

FreeSlots == {w \in Workers : ~Alive(w)}

\* The slot the next thread takes.
NextSlot == CHOOSE w \in FreeSlots : \A v \in FreeSlots : w <= v

\* _handle_command_entered: the user presses Enter on `text`.
HandleCommandEntered(text) ==
    /\ input_enabled
    /\ \E command_text \in {Strip(text)} :
       IF command_text = <<>> THEN UNCHANGED vars
       ELSE \E e \in {process_command(apps_database, shopping_cart,
                                      awaiting_confirmation, command_text)} :
                IF e.log[1].key = "restart_app"
                THEN Relaunch
                ELSE /\ shopping_cart' = e.cart
                     /\ awaiting_confirmation' = e.awaiting
                     /\ UNCHANGED <<apps_database, ui_vars>>
                     /\ LogOutput(command_text, e.log)
                     /\ IF e.thread
                        THEN /\ FreeSlots # {}
                             /\ StartThread(NextSlot)
                             /\ run_log' = [run_log EXCEPT ![NextSlot] = <<>>]
                             /\ events' = [events EXCEPT ![NextSlot] = <<>>]
                             /\ UNCHANGED <<events_kept, fetched>>
                        ELSE UNCHANGED <<thread_vars, run_log, trace_vars>>

UserInput == \E text \in Inputs : HandleCommandEntered(text)

\* on_download_started / on_download_finished: the UI thread handles the
\* oldest queued progress_signal emission.
HandleUiEvent ==
    /\ ui_events # <<>>
    /\ input_enabled' = (Head(ui_events) = "finished")
    /\ ui_events' = Tail(ui_events)
    /\ UNCHANGED <<proc_vars, thread_vars, log_vars, trace_vars>>

\* ------------------------------------------------- pipeline (worker threads)
\* list(self.shopping_cart): the members in some order.
Orders(S) == {s \in [1..Cardinality(S) -> S] : Range(s) = S}

\* Lines 292-294: the thread takes its snapshot of the cart.
Snapshot(w) ==
    /\ pc[w] = "start"
    /\ \E order \in Orders(shopping_cart) :
          apps_to_install' = [apps_to_install EXCEPT ![w] = order]
    /\ idx' = [idx EXCEPT ![w] = 1]
    /\ pc' = [pc EXCEPT ![w] = "loop"]
    /\ UNCHANGED <<proc_vars, ui_vars, summary, dl, log_vars, trace_vars>>

\* `continue`, or the end of the loop body: the for loop goes to the next app.
NextApp_retry(w) ==
    /\ pc' = [pc EXCEPT ![w] = "loop"]
    /\ UNCHANGED idx

NextApp_skip(w) ==
    /\ pc' = [pc EXCEPT ![w] = "loop"]
    /\ idx' = [idx EXCEPT ![w] = @ + 2]

NextApp(w) ==
    /\ pc' = [pc EXCEPT ![w] = "loop"]
    /\ idx' = [idx EXCEPT ![w] = @ + 1]

\* The progress_emitter signals among evs that change the UI's state, as the
\* UI thread's event queue receives them.
Signals(evs) ==
    LET s == SelectSeq(evs, LAMBDA e : e.kind \in {"started", "finished"})
    IN  [k \in 1..Len(s) |-> s[k].kind]

\* Lines 297-304 and 330-331: the next app is resolved; when it has a URL
\* _download_file is called, which emits the started signal.
BeginApp(w) ==
    /\ pc[w] = "loop"
    /\ idx[w] <= Len(apps_to_install[w])
    /\ LET app_name == apps_to_install[w][idx[w]]
           installer_url == _find_app_url(apps_database, app_name)
       IN  IF ~Truthy(installer_url)
           THEN /\ LogRun(w, "url_not_found", "none", NoChild)
                /\ Emit(w, << Event(app_name, "processing", 0),
                              Event(app_name, "url_not_found", 0) >>)
                /\ NextApp(w)
                /\ UNCHANGED ui_events
           ELSE \E evs \in {<< Event(app_name, "started", 0) >>} :
                /\ Len(ui_events) + Len(Signals(evs)) <= MaxQueue
                /\ ui_events' = ui_events \o Signals(evs)
                /\ Emit(w, << Event(app_name, "processing", 0) >> \o evs)
                /\ pc' = [pc EXCEPT ![w] = "downloading"]
                /\ UNCHANGED <<idx, log_vars>>
    /\ dl' = [dl EXCEPT ![w] = NoDownload]
    /\ UNCHANGED <<proc_vars, input_enabled, apps_to_install, summary>>

\* What requests.get and raise_for_status can come to for a catalog entry:
\* a value that is no URL string makes requests raise; a URL may fail or not.
DownloadResults(installer_url) ==
    IF installer_url.kind = "str" THEN {"ok", "error"} ELSE {"error"}

\* Lines 337-349: the response has come with a good status; its headers give
\* the total size (0 without a content-length) and the file name.
Respond(w) ==
    /\ pc[w] = "downloading"
    /\ "ok" \in DownloadResults(_find_app_url(apps_database,
                                              apps_to_install[w][idx[w]]))
    /\ \E total_size \in {0, MaxChunks} :
          dl' = [dl EXCEPT ![w] = [local_filepath |-> TRUE,
                                   total_size |-> total_size,
                                   downloaded_size |-> 0,
                                   overdue |-> FALSE]]
    /\ pc' = [pc EXCEPT ![w] = "streaming"]
    /\ UNCHANGED <<proc_vars, ui_vars, apps_to_install, idx, summary, log_vars,
                   trace_vars>>

\* int(percentage) of the locals d.
Percent(d) == (d.downloaded_size * 100) \div d.total_size

\* Lines 358-373: the progress snapshot the loop emits after a chunk, d.overdue
\* being whether more than 0.2 s have passed since last_update_time.
ChunkEvents(app, d) ==
    IF d.overdue /\ d.total_size > 0
    THEN << Event(app, "progress", Percent(d)) >>
    ELSE << >>

\* Lines 352-373: one chunk of the body is written. last_update_time is set
\* only where a snapshot is emitted.
Chunk(w) ==
    /\ pc[w] = "streaming"
    /\ dl[w].downloaded_size < MaxChunks
    /\ \E overdue \in (IF dl[w].overdue THEN {TRUE} ELSE BOOLEAN) :
          LET d == [dl[w] EXCEPT !.downloaded_size = @ + 1, !.overdue = overdue]
          IN  /\ Emit(w, ChunkEvents(apps_to_install[w][idx[w]], d))
              /\ dl' = [dl EXCEPT ![w] =
                           [d EXCEPT !.overdue = d.overdue /\ d.total_size = 0]]
    /\ UNCHANGED <<proc_vars, ui_vars, pc, apps_to_install, idx, summary, log_vars>>

\* How the download can end where it stands: by an exception at any point (a
\* failed request, a bad status, a broken stream, a file that cannot be
\* written), or by the end of the stream.
EndResults(w) ==
    IF /\ pc[w] = "streaming"
       /\ dl[w].total_size \in {0, dl[w].downloaded_size}
    THEN {"ok", "error"}
    ELSE {"error"}

FinallyEvents_on_success(d, app, res) ==
    IF res = "ok"
    THEN << Event(app, "finished", 0) >>
         \o (IF d.local_filepath /\ d.total_size > 0
             THEN << Event(app, "progress", 100) >>
             ELSE << >>)
    ELSE << >>

\* Lines 380-389: what the finally clause emits, for the locals d.
FinallyEvents(d, app, res) ==
    << Event(app, "finished", 0) >>
    \o (IF d.local_filepath /\ d.total_size > 0
        THEN << Event(app, "progress", 100) >>
        ELSE << >>)

\* Lines 375-379: the line logged before the return statement.
ReturnEvents(app, res) ==
    << Event(app, IF res = "ok" THEN "downloaded" ELSE "download_error", 0) >>

file_path_partial(d, res) == d.local_filepath

\* Lines 376 and 379: whether the value _download_file returns is truthy
\* (local_filepath from the try block, None from the except block).
file_path(d, res) == res = "ok"

\* Lines 304-308 and 375-389: _download_file returns, after its finally clause.
DownloadEnds(w) ==
    /\ pc[w] \in {"downloading", "streaming"}
    /\ \E res \in EndResults(w) :
       \E evs \in {ReturnEvents(apps_to_install[w][idx[w]], res)
                   \o FinallyEvents(dl[w], apps_to_install[w][idx[w]], res)} :
          /\ Len(ui_events) + Len(Signals(evs)) <= MaxQueue
          /\ ui_events' = ui_events \o Signals(evs)
          /\ IF file_path(dl[w], res)
             THEN /\ pc' = [pc EXCEPT ![w] = "installing"]
                  /\ Emit(w, evs \o << Event(apps_to_install[w][idx[w]],
                                             "installer", 0) >>)
                  /\ UNCHANGED <<idx, log_vars>>
             ELSE /\ NextApp(w)
                  /\ Emit(w, evs)
                  /\ LogRun(w, "download_failed", "error", NoChild)
    /\ dl' = [dl EXCEPT ![w] = NoDownload]
    /\ UNCHANGED <<proc_vars, input_enabled, apps_to_install, summary>>

\* How subprocess.run can end: the child exits with a code, or cannot be launched.
ChildRuns == {[launched |-> TRUE, returncode |-> 0],
              [launched |-> TRUE, returncode |-> 1],
              [launched |-> FALSE, returncode |-> 0]}

_run_installer_any_exit(child) == child.launched

_run_installer_unless_nonzero(child) == ~child.launched \/ child.returncode = 0

\* _run_installer: True iff the child was launched and returned 0.
_run_installer(child) == child.launched /\ child.returncode = 0

\* The thread ends, by returning ("done") or by an uncaught exception
\* ("crashed"); the model keeps where its loop stood.
EndThread(w, how) == pc' = [pc EXCEPT ![w] = how]

\* Lines 310-316: the installer has ended; on success the app leaves the cart.
\* set.remove raises KeyError for a missing member, which ends the thread.
InstallerEnds(w) ==
    /\ pc[w] = "installing"
    /\ \E child \in ChildRuns :
          LET app_name == apps_to_install[w][idx[w]] IN
          IF _run_installer(child)
          THEN /\ LogRun(w, "succeeded", "ok", child)
               /\ IF app_name \in shopping_cart
                  THEN /\ shopping_cart' = shopping_cart \ {app_name}
                       /\ NextApp(w)
                  ELSE /\ EndThread(w, "crashed")
                       /\ UNCHANGED <<shopping_cart, idx>>
          ELSE /\ LogRun(w, "install_failed", "ok", child)
               /\ NextApp(w)
               /\ UNCHANGED shopping_cart
    /\ Emit(w, << Event(apps_to_install[w][idx[w]], "result", 0) >>)
    /\ UNCHANGED <<apps_database, awaiting_confirmation, ui_vars, summary,
                   apps_to_install, dl>>

\* Lines 318-323: the loop is over; the final summary reports the cart, and
\* run_full_installation returns.
Finish(w) ==
    /\ pc[w] = "loop"
    /\ idx[w] > Len(apps_to_install[w])
    /\ summary' = [summary EXCEPT ![w] = @ + 1]
    /\ EndThread(w, "done")
    /\ UNCHANGED <<proc_vars, ui_vars, log_vars, trace_vars, apps_to_install,
                   idx, dl>>

WorkerStep == \E w \in Workers :
    \/ Snapshot(w) \/ BeginApp(w) \/ Respond(w) \/ Chunk(w) \/ DownloadEnds(w)
    \/ InstallerEnds(w) \/ Finish(w)

\* ---------------------------------------------------------- specifications
\* The application as it runs: commands, UI events and pipeline threads
\* interleave freely.
Next == UserInput \/ HandleUiEvent \/ WorkerStep

Spec == Init /\ [][Next]_vars

\* The same application with a user who types nothing while a pipeline thread
\* is alive, and with the logs recorded.
InitSeq ==
    /\ log_kept = TRUE
    /\ events_kept = FALSE
    /\ \E fetch \in Fetches : Launched(fetch)

QuietUserInput == (\A w \in Workers : ~Alive(w)) /\ UserInput

NextSeq == QuietUserInput \/ HandleUiEvent \/ WorkerStep

SeqSpec == InitSeq /\ [][NextSeq]_vars

\* The same quiet user, with what the pipeline threads emit recorded instead.
InitRun ==
    /\ log_kept = FALSE
    /\ events_kept = TRUE
    /\ \E fetch \in Fetches : Launched(fetch)

RunSpec == InitRun /\ [][NextSeq]_vars


\* ------------------------------------------------------------------ claims
\* The stripped text of an input is an answer given at the (y/n) prompt.
AnswerStep(text) ==
    /\ awaiting_confirmation
    /\ Strip(text) # <<>>
    /\ HandleCommandEntered(text)

\* 'y' and 'yes' in every mix of upper and lower case.
AffirmativeTexts ==
    {<<a>> : a \in {"y", "Y"}}
    \cup {<<a, b, c>> : a \in {"y", "Y"}, b \in {"e", "E"}, c \in {"s", "S"}}

ThreadStarted == \E w \in Workers : pc[w] # "start" /\ pc'[w] = "start"

\* The thread is in its loop over the snapshot.
InLoop(w) == pc[w] \in {"loop", "downloading", "installing"}

\* The apps of thread w's run whose download succeeded and whose installer
\* was launched and returned exit code 0.
InstalledApps(w) ==
    {run_log[w][k].app : k \in {j \in 1..Len(run_log[w]) :
        /\ run_log[w][j].download = "ok"
        /\ run_log[w][j].child.launched
        /\ run_log[w][j].child.returncode = 0}}

\* C1: in a run with no foreground command interleaved, the cart is the
\* snapshot taken at the start minus exactly the apps downloaded and installed
\* with exit code 0 so far; when the loop is over (the state the summary
\* reports) every app has an outcome and the cart is the start cart minus
\* exactly the installed ones.
C1_CartAfterRun ==
    \A w \in Workers :
        InLoop(w) =>
            /\ shopping_cart = Range(apps_to_install[w]) \ InstalledApps(w)
            /\ idx[w] > Len(apps_to_install[w]) =>
                   Len(run_log[w]) = Len(apps_to_install[w])

\* The spec's example: steam's download fails, vscode installs with exit
\* code 0, and the run ends with steam alone in the cart.
C1_Witness ==
    \E w \in Workers :
        /\ pc[w] = "loop"
        /\ apps_to_install[w] = <<steam, vscode>>
        /\ idx[w] = 3
        /\ run_log[w][1].msg = "download_failed"
        /\ run_log[w][2].msg = "succeeded"
        /\ shopping_cart = {steam}

\* C2: an input given while awaiting_confirmation is set is consumed as a
\* yes/no answer whatever its text: it leaves the cart alone, logs only the
\* confirmation or the cancellation (never a handler's output), does not
\* restart the application, and any text other than y/yes is a "no".
C2_ConfirmationGate ==
    [][\A text \in Inputs :
          AnswerStep(text) =>
              /\ shopping_cart' = shopping_cart
              /\ apps_database' = apps_database
              /\ output'[1].key \in {"confirmation_received", "installation_cancelled"}
              /\ Strip(text) \notin AffirmativeTexts =>
                     /\ output'[1].key = "installation_cancelled"
                     /\ UNCHANGED thread_vars]_vars

\* 'show-apps' typed at the prompt was taken as a "no".
C2_Witness ==
    /\ entered = w_show_apps
    /\ output[1].key = "installation_cancelled"
    /\ ~awaiting_confirmation
    /\ shopping_cart # {}

\* The texts of add and remove with each list of names.
AddText == [a \in ArgLists |-> JoinWords(<<w_add>> \o a)]
RemoveText == [a \in ArgLists |-> JoinWords(<<w_remove>> \o a)]

\* C3: in Idle, add(names) leaves the cart united with the names that are
\* catalog identifiers, and remove(names) leaves the cart minus the names;
\* so a sequence of them yields the set-theoretic result of applying them in
\* order.
C3_CartAlgebra ==
    [][\A a \in ArgLists :
          /\ (/\ ~awaiting_confirmation
              /\ entered' = AddText[a]
              /\ HandleCommandEntered(AddText[a]))
             => shopping_cart' =
                   shopping_cart \cup (Range(a) \cap CatalogIds(apps_database))
          /\ (/\ ~awaiting_confirmation
              /\ entered' = RemoveText[a]
              /\ HandleCommandEntered(RemoveText[a]))
             => shopping_cart' = shopping_cart \ Range(a)]_vars

\* 'add foo steam' was entered: foo is refused and steam is added.
C3_Witness ==
    /\ entered = AddText[<<foo, steam>>]
    /\ output[1].key = "not_found"
    /\ output[2].key = "added"
    /\ shopping_cart = {steam}

\* C4: at most one pipeline thread is alive at any time.
C4_AtMostOnePipeline == Cardinality({w \in Workers : Alive(w)}) <= 1

\* C5: a run works on the cart as it was when the run started: an app of
\* the snapshot is downloaded by the run whatever the foreground does to the
\* cart afterwards, so a thread that has ended has gone through its whole
\* snapshot.
C5_SnapshotProcessed ==
    \A w \in Workers :
        pc[w] \in {"done", "crashed"} => idx[w] >= Len(apps_to_install[w])

\* C6: no interleaving of foreground cart commands makes a pipeline thread
\* fail.
C6_NoWorkerFailure == \A w \in Workers : pc[w] # "crashed"

\* C7: a run that has ended has logged exactly one final summary.
C7_OneSummaryPerRun ==
    \A w \in Workers : pc[w] \in {"done", "crashed"} => summary[w] = 1

\* C8: whatever the failures of a run (URL not found, download error,
\* installer failure), no failure ends the thread, the apps before the loop's
\* position have exactly one outcome each, in snapshot order, and a thread
\* that returned has one outcome for every app of its snapshot.
C8_EachAppOnce ==
    \A w \in Workers :
        /\ pc[w] # "crashed"
        /\ InLoop(w) \/ pc[w] = "done" =>
              /\ idx[w] \in 1..(Len(apps_to_install[w]) + 1)
              /\ Len(run_log[w]) = idx[w] - 1
              /\ \A k \in 1..Len(run_log[w]) :
                     run_log[w][k].app = apps_to_install[w][k]
        /\ pc[w] = "done" => Len(run_log[w]) = Len(apps_to_install[w])

\* A run of two apps has returned: the first download failed, and the second
\* app was still downloaded and its installer run (it failed too).
C8_Witness ==
    \E w \in Workers :
        /\ pc[w] = "done"
        /\ Len(apps_to_install[w]) = 2
        /\ run_log[w][1].msg = "download_failed"
        /\ run_log[w][2].msg = "install_failed"
        /\ shopping_cart = Range(apps_to_install[w])

\* C9: at the prompt a pipeline thread is started iff the answer is y or yes
\* in any case; every answer leaves the cart as it was.
C9_LaunchIffAffirmative ==
    [][\A text \in Inputs :
          AnswerStep(text) =>
              /\ ThreadStarted <=> Strip(text) \in AffirmativeTexts
              /\ shopping_cart' = shopping_cart]_vars

\* 'YES' was answered and a pipeline thread has been started.
C9_Witness ==
    /\ entered = w_YES
    /\ output[1].key = "confirmation_received"
    /\ \E w \in Workers : pc[w] = "start"

\* C10: one answer, whatever it is, clears awaiting_confirmation.
C10_OneAnswerClears ==
    [][\A text \in Inputs :
          AnswerStep(text) => ~awaiting_confirmation']_vars

\* 'install' typed at the prompt was consumed as the answer: the dispatcher
\* is back in Idle.
C10_Witness ==
    /\ entered = w_install
    /\ output[1].key = "installation_cancelled"
    /\ ~awaiting_confirmation

\* The texts whose command word is 'install'.
InstallTexts ==
    {text \in Inputs : Split(text) # <<>> /\ Lower(Split(text)[1]) = w_install}

\* C11: awaiting_confirmation is set only by an 'install' command processed
\* in Idle with a non-empty cart (no other command, no UI event and no
\* pipeline step sets it); 'install' with an empty cart logs one warning and
\* leaves the dispatcher in Idle.
C11_OnlyInstallSetsAwaiting ==
    [][/\ (~awaiting_confirmation /\ awaiting_confirmation') =>
              /\ shopping_cart # {}
              /\ shopping_cart' = shopping_cart
              /\ \E text \in InstallTexts : HandleCommandEntered(text)
       /\ \A text \in InstallTexts :
              (/\ ~awaiting_confirmation
               /\ shopping_cart = {}
               /\ HandleCommandEntered(text))
              => /\ ~awaiting_confirmation'
                 /\ process_command(apps_database, shopping_cart, FALSE,
                                    Strip(text)).log
                       = << Msg("warning", "cart_empty_nothing_to_install") >>]_vars

\* 'install' was accepted with steam and vscode in the cart: the prompt is
\* pending and no pipeline thread has been started.
C11_Witness ==
    /\ awaiting_confirmation
    /\ shopping_cart = {steam, vscode}
    /\ \A w \in Workers : pc[w] = "idle"

\* C12: resolving a cart member gives exactly one download URL string, and
\* that single URL is what the pipeline hands to the downloader: whenever a
\* thread is in _download_file, its url argument is one URL string.
C12_OneUrlHandedToDownloader ==
    \A w \in Workers :
        pc[w] \in {"downloading", "streaming"} =>
            _find_app_url(apps_database, apps_to_install[w][idx[w]]).kind = "str"

\* Where thread w's run has emitted an event of this kind for this app.
EventIdx(w, app, kind) ==
    {k \in 1..Len(events[w]) : events[w][k].app = app /\ events[w][k].kind = kind}

\* Thread w is inside _download_file for this app.
InDownload(w, app) ==
    /\ pc[w] \in {"downloading", "streaming"}
    /\ apps_to_install[w][idx[w]] = app

\* The kinds of the events thread w's run has emitted, in order.
Kinds(w) == [k \in 1..Len(events[w]) |-> events[w][k].kind]

\* C13: every download emits exactly one start event, before its terminal
\* event and before every progress snapshot, and exactly one terminal
\* (finished) event, on the success path and on every error path: a download
\* in flight has emitted its start and no terminal event, and one that has
\* returned has emitted one of each.
C13_OneStartOneTerminal ==
    \A w \in Workers : \A app \in Range(apps_to_install[w]) :
        LET s == EventIdx(w, app, "started")
            f == EventIdx(w, app, "finished")
            p == EventIdx(w, app, "progress")
        IN  /\ Cardinality(s) <= 1
            /\ Cardinality(f) <= 1
            /\ f \cup p # {} => s # {}
            /\ \A i \in s : \A j \in f \cup p : i < j
            /\ InDownload(w, app) => Cardinality(s) = 1 /\ f = {}
            /\ (s # {} /\ ~InDownload(w, app)) => Cardinality(f) = 1

\* A download with a known size failed in mid-stream after one snapshot: its
\* run went on to the next app having emitted one start and one terminal
\* event for it.
C13_Witness ==
    \E w \in Workers :
        /\ pc[w] = "loop"
        /\ idx[w] = 2
        /\ Kinds(w) = <<"processing", "started", "progress", "download_error",
                        "finished", "progress">>
        /\ events[w][3].percent = 50

\* The place of an app in thread w's snapshot.
Pos(w, app) ==
    CHOOSE k \in 1..Len(apps_to_install[w]) : apps_to_install[w][k] = app

\* The places of the snapshot thread w's loop has reached so far.
Reached(w) ==
    {k \in 1..Len(apps_to_install[w]) :
        \/ k < idx[w]
        \/ k = idx[w] /\ pc[w] \in {"downloading", "streaming", "installing",
                                    "crashed"}}

\* C14: within one run the apps are processed one at a time in the order of
\* the snapshot: the events of a run (processing, download start, progress
\* snapshots, terminal event, installer call and result) never go back to an
\* earlier app, so every event of app N comes before the download start of
\* app N+1, and the apps that have events are exactly those the loop has
\* reached, none being skipped.
C14_OneAppAtATimeInOrder ==
    \A w \in Workers :
        /\ \A i, j \in 1..Len(events[w]) :
               i < j => Pos(w, events[w][i].app) <= Pos(w, events[w][j].app)
        /\ {Pos(w, events[w][k].app) : k \in 1..Len(events[w])} = Reached(w)

\* A run of two apps: the first was downloaded and its installer has returned,
\* and the download of the second has started.
C14_Witness ==
    \E w \in Workers :
        /\ Len(apps_to_install[w]) = 2
        /\ EventIdx(w, apps_to_install[w][1], "progress") # {}
        /\ EventIdx(w, apps_to_install[w][1], "result") # {}
        /\ EventIdx(w, apps_to_install[w][2], "started") # {}

\* C15: the installer step reports success iff the child was launched and
\* exited with code zero; a nonzero exit code and a child that cannot be
\* launched are both reported as a failed install, and neither ends the
\* pipeline thread.
C15_SuccessIffExitZero ==
    \A w \in Workers :
        /\ pc[w] # "crashed"
        /\ \A k \in 1..Len(run_log[w]) :
               LET r == run_log[w][k] IN
               /\ r.msg = "succeeded" <=>
                      (r.download = "ok" /\ r.child.launched /\ r.child.returncode = 0)
               /\ r.msg = "install_failed" <=>
                      (r.download = "ok"
                       /\ ~(r.child.launched /\ r.child.returncode = 0))

\* A run has returned in which one installer could not be launched and the
\* other exited with code 1: both were reported as failed installs.
C15_Witness ==
    \E w \in Workers :
        /\ pc[w] = "done"
        /\ Len(run_log[w]) = 2
        /\ run_log[w][1].download = "ok"
        /\ ~run_log[w][1].child.launched
        /\ run_log[w][1].msg = "install_failed"
        /\ run_log[w][2].child = [launched |-> TRUE, returncode |-> 1]
        /\ run_log[w][2].msg = "install_failed"

\* C16: a download without a content-length still emits progress snapshots:
\* once a chunk has arrived more than 0.2 s after the last update time, the
\* download has emitted a snapshot.
C16_UnknownSizeStillReports ==
    \A w \in Workers :
        (/\ pc[w] = "streaming"
         /\ dl[w].total_size = 0
         /\ dl[w].overdue)
        => EventIdx(w, apps_to_install[w][idx[w]], "progress") # {}

\* C17: add is idempotent per name: a name that is already in the cart gets
\* the 'already in cart' warning, a call whose names are all in the cart
\* leaves the cart as it was, and the same add applied again to the cart it
\* has just produced yields that cart.
C17_AddIdempotent ==
    [][\A a \in ArgLists :
          (/\ ~awaiting_confirmation
           /\ entered' = AddText[a]
           /\ HandleCommandEntered(AddText[a]))
          => /\ \A k \in 1..Len(a) :
                    a[k] \in shopping_cart =>
                        /\ output'[k].key = "already_in_cart"
                        /\ output'[k].level = "warning"
             /\ Range(a) \subseteq shopping_cart => shopping_cart' = shopping_cart
             /\ add_to_cart(apps_database', shopping_cart', a).cart
                    = shopping_cart']_vars

\* 'add steam vscode' was entered with steam already in the cart: steam got
\* the warning, vscode was added.
C17_Witness ==
    /\ entered = AddText[<<steam, vscode>>]
    /\ output[1].key = "already_in_cart"
    /\ output[2].key = "added"
    /\ shopping_cart = {steam, vscode}

\* C18: a batch add or remove handles every name on its own: the call logs
\* exactly one outcome message per name, in order, before it shows the cart;
\* a name that is not in the catalog (add) or not in the cart (remove) gets
\* an error, and every other name of the call is applied whatever comes
\* before or after it.
C18_PartialSuccess ==
    [][\A a \in ArgLists \ {<<>>} :
          /\ (/\ ~awaiting_confirmation
              /\ entered' = AddText[a]
              /\ HandleCommandEntered(AddText[a]))
             => /\ Len(output') = Len(a) + Len(show_cart(shopping_cart'))
                /\ \A k \in 1..Len(a) :
                       /\ output'[k].about = a[k]
                       /\ output'[k].key \in {"added", "already_in_cart", "not_found"}
                       /\ (output'[k].key = "not_found")
                              <=> (a[k] \notin CatalogIds(apps_database))
                       /\ (output'[k].key = "not_found")
                              => (output'[k].level = "error")
                       /\ (a[k] \in CatalogIds(apps_database))
                              => (a[k] \in shopping_cart')
          /\ (/\ ~awaiting_confirmation
              /\ entered' = RemoveText[a]
              /\ HandleCommandEntered(RemoveText[a]))
             => /\ Len(output') = Len(a) + Len(show_cart(shopping_cart'))
                /\ \A k \in 1..Len(a) :
                       /\ output'[k].about = a[k]
                       /\ output'[k].key \in {"removed", "not_in_cart"}
                       /\ (output'[k].key = "not_in_cart")
                              <=> (a[k] \notin
                                     shopping_cart \ Range(SubSeq(a, 1, k - 1)))
                       /\ (output'[k].key = "not_in_cart")
                              => (output'[k].level = "error")
                       /\ a[k] \notin shopping_cart'
                /\ shopping_cart \ Range(a) \subseteq shopping_cart']_vars

\* 'remove foo steam' was entered with steam and vscode in the cart: foo got
\* its error and steam was still removed.
C18_Witness ==
    /\ entered = RemoveText[<<foo, steam>>]
    /\ output[1].key = "not_in_cart"
    /\ output[2].key = "removed"
    /\ shopping_cart = {vscode}

\* C19: remove-all is idempotent: it leaves the cart empty whatever it held,
\* on an empty cart it logs the 'already empty' warning, and applied again to
\* the cart it leaves it reports 'already empty' and leaves the cart empty.
C19_RemoveAllIdempotent ==
    [][(/\ ~awaiting_confirmation
        /\ entered' = w_remove_all
        /\ HandleCommandEntered(w_remove_all))
       => /\ shopping_cart' = {}
          /\ Len(output') = 1
          /\ IF shopping_cart = {}
             THEN output'[1] = Msg("warning", "cart_already_empty")
             ELSE output'[1] = Msg("success", "cart_cleared")
          /\ clear_cart(shopping_cart')
                = [cart |-> {}, log |-> << Msg("warning", "cart_already_empty") >>]]_vars

\* 'remove-all' was entered on an empty cart.
C19_Witness ==
    /\ entered = w_remove_all
    /\ output = << Msg("warning", "cart_already_empty") >>
    /\ shopping_cart = {}

\* The texts the dispatcher cannot parse in Idle: a command word that is no
\* key of command_map, or 'add' / 'remove' with no name.
ParseErrorTexts ==
    {text \in Inputs :
        /\ Split(text) # <<>>
        /\ \/ Lower(Split(text)[1]) \notin CommandMapKeys
           \/ /\ Lower(Split(text)[1]) \in {w_add, w_remove}
              /\ Len(Split(text)) = 1}

\* C20: in Idle a command that cannot be parsed (unrecognized word, or add /
\* remove without a name) logs one error message and changes nothing: the
\* cart, awaiting_confirmation, the catalog, the command line and the threads
\* are as before, so the next input is dispatched as it would have been.
C20_ParseErrorsChangeNothing ==
    [][\A text \in ParseErrorTexts :
          (/\ ~awaiting_confirmation
           /\ entered' = Strip(text)
           /\ HandleCommandEntered(text))
          => /\ Len(output') = 1
             /\ output'[1].level = "error"
             /\ output'[1].key \in {"not_recognized", "add_no_name", "remove_no_name"}
             /\ UNCHANGED <<proc_vars, ui_vars, thread_vars>>]_vars

\* 'add' without a name was entered with steam in the cart: the error was
\* logged and the cart kept.
C20_Witness ==
    /\ entered = w_add
    /\ output = << Msg("error", "add_no_name") >>
    /\ shopping_cart = {steam}
    /\ ~awaiting_confirmation

\* The command words of the documented command-line surface.
DocumentedCommands ==
    {w_show_apps, w_add, w_remove, w_remove_all, w_cart, w_install, w_help,
     w_clear, w_restart, w_sys_info, w_show_sys_info}

\* C21: every documented command word (show-apps, add, remove, remove-all,
\* cart, install, help, clear, restart, sys-info, show-sys-info) entered in
\* Idle is routed to a handler: the dispatcher never answers it with the
\* 'not recognized' error.
C21_DocumentedCommandsRecognized ==
    (/\ Split(entered) # <<>>
     /\ Lower(Split(entered)[1]) \in DocumentedCommands)
    => \A k \in 1..Len(output) : output[k].key # "not_recognized"

\* C22: loading the catalog never fails. Whatever the fetch met (a network
\* error, an HTTP error, content that cannot be executed, content with no or
\* an empty AVAILABLE_APPS), the catalog of the running application is the
\* bundled mapping; it is the fetched mapping only when the fetch succeeded
\* with a non-empty AVAILABLE_APPS; and it stays what the launch loaded.
C22_CatalogFromFetch ==
    /\ fetched \in Fetches
    /\ fetched.kind \in {"network_error", "http_error", "unparsable"}
          => apps_database = AVAILABLE_APPS
    /\ (fetched.kind = "text" /\ "AVAILABLE_APPS" \notin DOMAIN fetched.local_scope)
          => apps_database = AVAILABLE_APPS
    /\ (fetched.kind = "text" /\ "AVAILABLE_APPS" \in DOMAIN fetched.local_scope)
          => apps_database = IF fetched.local_scope["AVAILABLE_APPS"] = << >>
                             THEN AVAILABLE_APPS
                             ELSE fetched.local_scope["AVAILABLE_APPS"]
    /\ apps_database # << >>

\* The fetched content bound an empty AVAILABLE_APPS, the bundled list was
\* loaded, and it is still the catalog after a run of the pipeline.
C22_Witness ==
    /\ fetched = Fetch("text", "AVAILABLE_APPS" :> << >>)
    /\ apps_database = AVAILABLE_APPS
    /\ \E w \in Workers : pc[w] = "done"

\* C23: within a run the installer is invoked for an app only after that app's
\* download has returned successfully; an app whose URL was not found or whose
\* download failed (before or after part of the file was written) gets no
\* installer call and no installation result, and is still in the cart while
\* the run lasts.
C23_InstallerOnlyAfterDownload ==
    \A w \in Workers : \A app \in Range(apps_to_install[w]) :
        LET ok == EventIdx(w, app, "downloaded")
            failed == EventIdx(w, app, "download_error")
                      \cup EventIdx(w, app, "url_not_found")
            called == EventIdx(w, app, "installer") \cup EventIdx(w, app, "result")
        IN  /\ called # {} => /\ Cardinality(ok) = 1
                              /\ \A i \in ok : \A j \in called : i < j
            /\ failed # {} => /\ called = {}
                              /\ ok = {}
                              /\ Alive(w) => app \in shopping_cart
            /\ (pc[w] = "installing" /\ apps_to_install[w][idx[w]] = app) => ok # {}

\* A download with a known size failed after the file was opened and one
\* chunk written: the run is at the next app, no installer was called for the
\* first and it is still in the cart.
C23_Witness ==
    \E w \in Workers :
        /\ pc[w] = "downloading"
        /\ idx[w] = 2
        /\ EventIdx(w, apps_to_install[w][1], "download_error") # {}
        /\ \E k \in EventIdx(w, apps_to_install[w][1], "progress") :
               events[w][k].percent = 50
        /\ EventIdx(w, apps_to_install[w][1], "installer") = {}
        /\ apps_to_install[w][1] \in shopping_cart

\* C24: the terminal (finished) event is the last event of its download:
\* every progress snapshot of a download comes after its start event and
\* before its terminal event, and none is emitted once finished was.
C24_FinishedIsLast ==
    \A w \in Workers : \A app \in Range(apps_to_install[w]) :
        \A p \in EventIdx(w, app, "progress") :
            /\ \A s \in EventIdx(w, app, "started") : s < p
            /\ \A f \in EventIdx(w, app, "finished") : p < f

\* C25: a progress event with percent = 100 (downloaded = total) is emitted
\* only for a download that succeeded: a download that failed, in particular
\* in mid-stream after the file was opened with a known content-length, has
\* reported no 100 percent.
C25_FullProgressOnlyOnSuccess ==
    \A w \in Workers : \A app \in Range(apps_to_install[w]) :
        EventIdx(w, app, "download_error") # {}
        => \A p \in EventIdx(w, app, "progress") : events[w][p].percent < 100

\* Some pipeline thread is inside _download_file.
DownloadInFlight == \E w \in Workers : pc[w] \in {"downloading", "streaming"}

\* C26: the command line is disabled exactly while a download is in flight.
\* When the UI has handled every signal emitted so far (so the start event of
\* each download in flight, and no terminal event of it, since none was
\* emitted), the command line is disabled if a download is in flight, and
\* enabled otherwise, in particular while the installer runs.
C26_InputDisabledDuringDownload ==
    ui_events = << >> => (input_enabled <=> ~DownloadInFlight)

\* C27: in every reachable state every member of the cart is an identifier of
\* the loaded catalog, and so is every app of a run's snapshot: the URL
\* resolution of the pipeline finds an entry for each of them and never takes
\* its 'Could not find URL' branch.
C27_CartWithinCatalog ==
    /\ shopping_cart \subseteq CatalogIds(apps_database)
    /\ \A w \in Workers : \A k \in 1..Len(apps_to_install[w]) :
           Truthy(_find_app_url(apps_database, apps_to_install[w][k]))

\* Both catalog apps are in the cart and in a run's snapshot, and the run has
\* resolved the URL of the second and is downloading it.
C27_Witness ==
    /\ shopping_cart = {steam, vscode}
    /\ \E w \in Workers :
          /\ Len(apps_to_install[w]) = 2
          /\ idx[w] = 2
          /\ pc[w] = "downloading"

\* The texts whose command word is add, remove or remove-all.
CartTexts ==
    {text \in Inputs :
        /\ Split(text) # <<>>
        /\ Lower(Split(text)[1]) \in {w_add, w_remove, w_remove_all}}

\* process_command returns with the cart it was called with, for every
\* catalog, cart and text: at the confirmation prompt for every text, in Idle
\* for every text whose command word is not add, remove or remove-all.
DispatcherKeepsCart ==
    \A db \in Catalogs : \A cart \in SUBSET CatalogIds(db) :
    \A awaiting \in BOOLEAN : \A text \in Inputs :
        (/\ Strip(text) # <<>>
         /\ awaiting \/ text \notin CartTexts)
        => process_command(db, cart, awaiting, Strip(text)).cart = cart

\* What an add, remove or remove-all command dispatched in Idle can do to the
\* cart: the catalog, the cart before and the cart after.
CartMoves ==
    {<<db, cart, process_command(db, cart, FALSE, Strip(text)).cart>> :
        db \in Catalogs, cart \in SUBSET Names, text \in CartTexts}

\* C28: the dispatcher's frame condition on the cart. show-apps, cart, help,
\* clear, restart, install and every confirmation answer return with the cart
\* unchanged; a step that changes the cart is an add, remove or remove-all
\* command dispatched in Idle, or the step of a pipeline thread whose installer
\* succeeded, which removes that one app and adds nothing (or it is the
\* relaunch after restart, where a new process starts with its own, empty
\* cart).
C28_CartFrame ==
    [][/\ DispatcherKeepsCart
       /\ shopping_cart' # shopping_cart =>
             \/ /\ ~awaiting_confirmation
                /\ input_enabled
                /\ <<apps_database, shopping_cart, shopping_cart'>> \in CartMoves
                /\ UNCHANGED <<apps_database, awaiting_confirmation, ui_vars,
                               thread_vars>>
             \/ \E w \in Workers :
                   /\ pc[w] = "installing"
                   /\ pc'[w] = "loop"
                   /\ apps_to_install[w][idx[w]] \in shopping_cart
                   /\ shopping_cart' = shopping_cart \ {apps_to_install[w][idx[w]]}
             \/ /\ ~awaiting_confirmation
                /\ HandleCommandEntered(w_restart)
                /\ shopping_cart' = {}]_vars

\* 'install' was accepted while a run of [steam, vscode] had installed steam:
\* the prompt is pending, and the cart is what the pipeline's removal left.
C28_Witness ==
    /\ awaiting_confirmation
    /\ shopping_cart = {vscode}
    /\ \E w \in Workers :
          /\ apps_to_install[w] = <<steam, vscode>>
          /\ idx[w] = 2
          /\ pc[w] = "loop"

====
